---- MODULE Spec2Model ----
(***************************************************************************)
(* Model of src/bubble_sort_visualizer.py: the six step generators of      *)
(* SortingVisualizer and the playback logic that consumes them             *)
(* (start_sort, pause_or_resume, reset, perform_next_step).                *)
(*                                                                         *)
(* Python lists are modelled as functions over 0..n-1 so that the index    *)
(* arithmetic of the source carries over unchanged.  An Optional value is  *)
(* a sequence of length at most one: None is <<>>, a present value v is    *)
(* <<v>>.                                                                  *)
(***************************************************************************)
EXTENDS Integers, Sequences, FiniteSets, TLC

\* ---------------------------------------------------------------------
\* Bounds of the model
\* ---------------------------------------------------------------------
MaxLen == 4

MaxVal == 3

MaxFieldVal == 2

\* Number of entry fields built by _build_layout.
NumFields == 5

\* ---------------------------------------------------------------------
\* Step protocol
\* ---------------------------------------------------------------------
None == <<>>

Some(x) == <<x>>

PyLen(list) == Cardinality(DOMAIN list)

PyRange(n) == 0 .. (n - 1)

\* Step = Tuple[str, int, Optional[int]]
Step(action, first, second) ==
  [action |-> action, first |-> first, second |-> second]

\* A generator in flight: its private list `data` and everything it has
\* yielded so far; each yielded step is recorded together with the value
\* of `data` at the moment the generator is suspended on that yield.
NewGen(numbers) == [data |-> numbers, out |-> <<>>]

Yield(st, step) ==
  [data |-> st.data,
   out  |-> Append(st.out, [step |-> step, data |-> st.data])]

\* data[i], data[j] = data[j], data[i]
Exchange(st, i, j) ==
  [st EXCEPT !.data = [@ EXCEPT ![i] = st.data[j], ![j] = st.data[i]]]

\* data[k] = value
Assign(st, k, value) == [st EXCEPT !.data = [@ EXCEPT ![k] = value]]

\* The loop of marks with each index one too high.
RECURSIVE YieldMarks_OneTooHigh(_, _, _)
YieldMarks_OneTooHigh(st, from, to) ==
  IF from >= to THEN st
  ELSE YieldMarks_OneTooHigh(Yield(st, Step("mark_sorted", from + 1, None)),
                             from + 1, to)

\* for index in range(from, to): yield ("mark_sorted", index, None)
RECURSIVE YieldMarks(_, _, _)
YieldMarks(st, from, to) ==
  IF from >= to THEN st
  ELSE YieldMarks(Yield(st, Step("mark_sorted", from, None)), from + 1, to)

\* ---------------------------------------------------------------------
\* Bubble sort
\* ---------------------------------------------------------------------
\* BubbleBody without the closing revert.
BubbleBodyNoRevert(st, j, swapped) ==
  LET s1 == Yield(st, Step("compare", j, Some(j + 1)))
      gt == s1.data[j] > s1.data[j + 1]
      s2 == IF gt
            THEN Yield(Exchange(s1, j, j + 1), Step("swap", j, Some(j + 1)))
            ELSE s1
  IN  [st |-> s2, swapped |-> (swapped \/ gt)]

\* Body of the inner loop: compare, conditional swap, revert.
BubbleBody(st, j, swapped) ==
  LET s1 == Yield(st, Step("compare", j, Some(j + 1)))
      gt == s1.data[j] > s1.data[j + 1]
      s2 == IF gt
            THEN Yield(Exchange(s1, j, j + 1), Step("swap", j, Some(j + 1)))
            ELSE s1
  IN  [st |-> Yield(s2, Step("revert", j, Some(j + 1))),
       swapped |-> (swapped \/ gt)]

\* for j in range(0, n - i - 1)
RECURSIVE BubbleInner(_, _, _, _, _)
BubbleInner(st, n, i, j, swapped) ==
  IF j >= n - i - 1 THEN [st |-> st, swapped |-> swapped]
  ELSE LET r == BubbleBody(st, j, swapped)
       IN  BubbleInner(r.st, n, i, j + 1, r.swapped)

\* The outer loop without the early exit: every pass is made.
RECURSIVE BubbleOuter_NoEarlyExit(_, _, _)
BubbleOuter_NoEarlyExit(st, n, i) ==
  IF i >= n THEN st
  ELSE LET r  == BubbleInner(st, n, i, 0, FALSE)
           s1 == Yield(r.st, Step("mark_sorted", n - i - 1, None))
       IN  BubbleOuter_NoEarlyExit(s1, n, i + 1)

\* for i in range(n), with the early exit when a pass did not swap
RECURSIVE BubbleOuter(_, _, _)
BubbleOuter(st, n, i) ==
  IF i >= n THEN st
  ELSE LET r  == BubbleInner(st, n, i, 0, FALSE)
           s1 == Yield(r.st, Step("mark_sorted", n - i - 1, None))
       IN  IF ~r.swapped
           THEN YieldMarks(s1, 0, n - i - 1)
           ELSE BubbleOuter(s1, n, i + 1)

bubble_sort_steps(numbers) ==
  BubbleOuter(NewGen(numbers), PyLen(numbers), 0).out

\* ---------------------------------------------------------------------
\* Selection sort
\* ---------------------------------------------------------------------
\* SelectionBody with the comparison turned round: keeps the maximum.
SelectionBodyGreater(st, j, min_index) ==
  LET previous_min == min_index
      s1 == Yield(st, Step("compare", min_index, Some(j)))
      new_min == IF s1.data[j] > s1.data[min_index] THEN j ELSE min_index
  IN  [st |-> Yield(s1, Step("revert", previous_min, Some(j))),
       min_index |-> new_min]

\* SelectionBody that reverts the pair of the new minimum, not the pair
\* it compared.
SelectionBody_RevertNewMin(st, j, min_index) ==
  LET s1 == Yield(st, Step("compare", min_index, Some(j)))
      new_min == IF s1.data[j] < s1.data[min_index] THEN j ELSE min_index
  IN  [st |-> Yield(s1, Step("revert", new_min, Some(j))),
       min_index |-> new_min]

\* SelectionBody with <= for <: among equal minima the last one is kept.
SelectionBody_LessEqual(st, j, min_index) ==
  LET previous_min == min_index
      s1 == Yield(st, Step("compare", min_index, Some(j)))
      new_min == IF s1.data[j] <= s1.data[min_index] THEN j ELSE min_index
  IN  [st |-> Yield(s1, Step("revert", previous_min, Some(j))),
       min_index |-> new_min]

\* Body of the inner loop; yields the new st and min_index.
SelectionBody(st, j, min_index) ==
  LET previous_min == min_index
      s1 == Yield(st, Step("compare", min_index, Some(j)))
      new_min == IF s1.data[j] < s1.data[min_index] THEN j ELSE min_index
  IN  [st |-> Yield(s1, Step("revert", previous_min, Some(j))),
       min_index |-> new_min]

\* for j in range(i + 1, n)
RECURSIVE SelectionScan(_, _, _, _)
SelectionScan(st, n, j, min_index) ==
  IF j >= n THEN [st |-> st, min_index |-> min_index]
  ELSE LET r == SelectionBody(st, j, min_index)
       IN  SelectionScan(r.st, n, j + 1, r.min_index)

\* if min_index != i: swap and revert; then mark_sorted(i)
SelectionPlace(st, i, min_index) ==
  LET s1 == IF min_index # i
            THEN Yield(Yield(Exchange(st, i, min_index),
                             Step("swap", i, Some(min_index))),
                       Step("revert", i, Some(min_index)))
            ELSE st
  IN  Yield(s1, Step("mark_sorted", i, None))

\* for i in range(n)
RECURSIVE SelectionOuter(_, _, _)
SelectionOuter(st, n, i) ==
  IF i >= n THEN st
  ELSE LET r == SelectionScan(st, n, i + 1, i)
       IN  SelectionOuter(SelectionPlace(r.st, i, r.min_index), n, i + 1)

selection_sort_steps(numbers) ==
  SelectionOuter(NewGen(numbers), PyLen(numbers), 0).out

\* ---------------------------------------------------------------------
\* Insertion sort
\* ---------------------------------------------------------------------
\* while j > 0: compare; swap, revert and continue, or revert and break
RECURSIVE InsertionWalk(_, _)
InsertionWalk(st, j) ==
  IF j <= 0 THEN st
  ELSE LET s1 == Yield(st, Step("compare", j - 1, Some(j)))
       IN  IF s1.data[j - 1] > s1.data[j]
           THEN InsertionWalk(
                  Yield(Yield(Exchange(s1, j - 1, j),
                              Step("swap", j - 1, Some(j))),
                        Step("revert", j - 1, Some(j))),
                  j - 1)
           ELSE Yield(s1, Step("revert", j - 1, Some(j)))

\* for sorted_index in range(i + 1): yield mark_sorted
InsertionMarks(st, i) == YieldMarks(st, 0, i + 1)

\* for i in range(1, n)
RECURSIVE InsertionOuter(_, _, _)
InsertionOuter(st, n, i) ==
  IF i >= n THEN st
  ELSE InsertionOuter(InsertionMarks(InsertionWalk(st, i), i), n, i + 1)

insertion_sort_steps(numbers) ==
  LET n == PyLen(numbers)
      s == InsertionOuter(NewGen(numbers), n, 1)
  IN  IF n # 0 THEN Yield(s, Step("mark_sorted", n - 1, None)).out
      ELSE s.out

\* ---------------------------------------------------------------------
\* Merge sort
\* ---------------------------------------------------------------------
\* data[lo : hi] as a list of its own
PySlice(list, lo, hi) == [t \in PyRange(hi - lo) |-> list[lo + t]]

\* data[k] = value; yield overwrite(k, value); yield revert(k, k)
MergePlace(st, k, value) ==
  Yield(Yield(Assign(st, k, value), Step("overwrite", k, Some(value))),
        Step("revert", k, Some(k)))

\* MergeBody with < for <=: on equal heads the right one is placed.
MergeBody_StrictLess(st, left_part, right_part, left, mid, i, j, k) ==
  LET left_index  == left + i
      right_index == mid + 1 + j
      s1 == Yield(st, Step("compare", left_index, Some(right_index)))
      s2 == Yield(s1, Step("revert", left_index, Some(right_index)))
  IN  IF left_part[i] < right_part[j]
      THEN [st |-> MergePlace(s2, k, left_part[i]),
            i |-> i + 1, j |-> j, k |-> k + 1]
      ELSE [st |-> MergePlace(s2, k, right_part[j]),
            i |-> i, j |-> j + 1, k |-> k + 1]

\* Body of the first while loop of merge: compare the two heads, revert,
\* then place the smaller one (the left one on a tie).
MergeBody(st, left_part, right_part, left, mid, i, j, k) ==
  LET left_index  == left + i
      right_index == mid + 1 + j
      s1 == Yield(st, Step("compare", left_index, Some(right_index)))
      s2 == Yield(s1, Step("revert", left_index, Some(right_index)))
  IN  IF left_part[i] <= right_part[j]
      THEN [st |-> MergePlace(s2, k, left_part[i]),
            i |-> i + 1, j |-> j, k |-> k + 1]
      ELSE [st |-> MergePlace(s2, k, right_part[j]),
            i |-> i, j |-> j + 1, k |-> k + 1]

\* while i < len(left_part) and j < len(right_part)
RECURSIVE MergeBoth(_, _, _, _, _, _, _, _)
MergeBoth(st, left_part, right_part, left, mid, i, j, k) ==
  IF i < PyLen(left_part) /\ j < PyLen(right_part)
  THEN LET r == MergeBody(st, left_part, right_part, left, mid, i, j, k)
       IN  MergeBoth(r.st, left_part, right_part, left, mid, r.i, r.j, r.k)
  ELSE [st |-> st, i |-> i, j |-> j, k |-> k]

\* while i < len(part): place part[i] at k  (both tail loops of merge)
RECURSIVE MergeRest(_, _, _, _)
MergeRest(st, part, i, k) ==
  IF i < PyLen(part)
  THEN MergeRest(MergePlace(st, k, part[i]), part, i + 1, k + 1)
  ELSE [st |-> st, k |-> k]

merge(st, left, mid, right) ==
  LET left_part  == PySlice(st.data, left, mid + 1)
      right_part == PySlice(st.data, mid + 1, right + 1)
      b == MergeBoth(st, left_part, right_part, left, mid, 0, 0, left)
      l == MergeRest(b.st, left_part, b.i, b.k)
      r == MergeRest(l.st, right_part, b.j, l.k)
  IN  r.st

RECURSIVE merge_sort(_, _, _)
merge_sort(st, left, right) ==
  IF left >= right THEN st
  ELSE LET mid == (left + right) \div 2
       IN  merge(merge_sort(merge_sort(st, left, mid), mid + 1, right),
                 left, mid, right)

merge_sort_steps(numbers) ==
  LET n == PyLen(numbers)
  IN  IF n > 0
      THEN YieldMarks(merge_sort(NewGen(numbers), 0, n - 1), 0, n).out
      ELSE <<>>

\* ---------------------------------------------------------------------
\* Quick sort (Lomuto partition)
\* ---------------------------------------------------------------------
\* QuickBody with < for <=: a value equal to the pivot stays on the right.
QuickBody_StrictLess(st, pivot_pos, pivot_value, i, j) ==
  LET s1 == Yield(st, Step("compare", j, Some(pivot_pos)))
      le == s1.data[j] < pivot_value
      s2 == IF le /\ i # j
            THEN Yield(Yield(Exchange(s1, i, j), Step("swap", i, Some(j))),
                       Step("revert", i, Some(j)))
            ELSE s1
  IN  [st |-> Yield(s2, Step("revert", j, Some(pivot_pos))),
       i  |-> IF le THEN i + 1 ELSE i]

\* Body of the scan loop of quick_sort.
QuickBody(st, pivot_pos, pivot_value, i, j) ==
  LET s1 == Yield(st, Step("compare", j, Some(pivot_pos)))
      le == s1.data[j] <= pivot_value
      s2 == IF le /\ i # j
            THEN Yield(Yield(Exchange(s1, i, j), Step("swap", i, Some(j))),
                       Step("revert", i, Some(j)))
            ELSE s1
  IN  [st |-> Yield(s2, Step("revert", j, Some(pivot_pos))),
       i  |-> IF le THEN i + 1 ELSE i]

\* for j in range(low, high)
RECURSIVE QuickScan(_, _, _, _, _, _)
QuickScan(st, high, pivot_pos, pivot_value, i, j) ==
  IF j >= high THEN [st |-> st, i |-> i]
  ELSE LET r == QuickBody(st, pivot_pos, pivot_value, i, j)
       IN  QuickScan(r.st, high, pivot_pos, pivot_value, r.i, j + 1)

\* Move the pivot into slot i and mark that slot.
QuickPivot(st, i, pivot_pos) ==
  Yield(Yield(Yield(Exchange(st, i, pivot_pos),
                    Step("swap", i, Some(pivot_pos))),
              Step("revert", i, Some(pivot_pos))),
        Step("mark_sorted", i, None))

\* quick_sort that returns early on an empty range only: a range of one
\* element is partitioned like any other.
RECURSIVE quick_sort_PartitionSingle(_, _, _)
quick_sort_PartitionSingle(st, low, high) ==
  IF low > high
  THEN st
  ELSE LET pivot_pos   == high
           pivot_value == st.data[pivot_pos]
           r == QuickScan(st, high, pivot_pos, pivot_value, low, low)
           p == QuickPivot(r.st, r.i, pivot_pos)
       IN  quick_sort_PartitionSingle(
             quick_sort_PartitionSingle(p, low, r.i - 1), r.i + 1, high)

RECURSIVE quick_sort(_, _, _)
quick_sort(st, low, high) ==
  IF low >= high
  THEN IF low = high THEN Yield(st, Step("mark_sorted", low, None)) ELSE st
  ELSE LET pivot_pos   == high
           pivot_value == st.data[pivot_pos]
           r == QuickScan(st, high, pivot_pos, pivot_value, low, low)
           p == QuickPivot(r.st, r.i, pivot_pos)
       IN  quick_sort(quick_sort(p, low, r.i - 1), r.i + 1, high)

quick_sort_steps(numbers) ==
  LET n == PyLen(numbers)
  IN  IF n > 0
      THEN YieldMarks(quick_sort(NewGen(numbers), 0, n - 1), 0, n).out
      ELSE <<>>

\* ---------------------------------------------------------------------
\* Heap sort
\* ---------------------------------------------------------------------
\* The two child comparisons of heapify; yields st and `largest`.
HeapifyChildren(st, size, root) ==
  LET left  == 2 * root + 1
      right == 2 * root + 2
      l1 == IF left < size /\ st.data[left] > st.data[root]
            THEN left ELSE root
      s1 == IF left < size
            THEN Yield(Yield(st, Step("compare", root, Some(left))),
                       Step("revert", root, Some(left)))
            ELSE st
      compare_index == l1
      l2 == IF right < size /\ st.data[right] > st.data[l1]
            THEN right ELSE l1
      s2 == IF right < size
            THEN Yield(Yield(s1, Step("compare", compare_index, Some(right))),
                       Step("revert", compare_index, Some(right)))
            ELSE s1
  IN  [st |-> s2, largest |-> l2]

RECURSIVE heapify(_, _, _)
heapify(st, size, root) ==
  LET c == HeapifyChildren(st, size, root)
  IN  IF c.largest # root
      THEN heapify(
             Yield(Yield(Exchange(c.st, root, c.largest),
                         Step("swap", root, Some(c.largest))),
                   Step("revert", root, Some(c.largest))),
             size, c.largest)
      ELSE c.st

\* for index in range(n // 2 - 1, -1, -1): heapify(n, index)
RECURSIVE HeapBuild(_, _, _)
HeapBuild(st, n, index) ==
  IF index <= -1 THEN st
  ELSE HeapBuild(heapify(st, n, index), n, index - 1)

\* Body of the extraction loop: swap root and end, mark end, revert,
\* re-heapify the shrunken heap.
HeapExtractBody(st, end) ==
  heapify(
    Yield(Yield(Yield(Exchange(st, 0, end), Step("swap", 0, Some(end))),
                Step("mark_sorted", end, None)),
          Step("revert", 0, Some(end))),
    end, 0)

\* for end in range(n - 1, 0, -1)
RECURSIVE HeapExtract(_, _)
HeapExtract(st, end) ==
  IF end <= 0 THEN st
  ELSE HeapExtract(HeapExtractBody(st, end), end - 1)

\* heap_sort_steps without the closing mark_sorted(0).
heap_sort_steps_NoLastMark(numbers) ==
  LET n == PyLen(numbers)
  IN  HeapExtract(HeapBuild(NewGen(numbers), n, (n \div 2) - 1), n - 1).out

heap_sort_steps(numbers) ==
  LET n == PyLen(numbers)
      s == HeapExtract(HeapBuild(NewGen(numbers), n, (n \div 2) - 1), n - 1)
  IN  IF n > 0 THEN Yield(s, Step("mark_sorted", 0, None)).out
      ELSE s.out

\* ---------------------------------------------------------------------
\* Registry of generators (algorithm_options / algorithm_generators)
\* ---------------------------------------------------------------------
algorithm_options ==
  <<"bubble", "selection", "insertion", "merge", "quick", "heap">>

AlgorithmKeys == {algorithm_options[k] : k \in DOMAIN algorithm_options}

\* generator_func(numbers), run to exhaustion
generator_func(key, numbers) ==
  CASE key = "bubble"    -> bubble_sort_steps(numbers)
    [] key = "selection" -> selection_sort_steps(numbers)
    [] key = "insertion" -> insertion_sort_steps(numbers)
    [] key = "merge"     -> merge_sort_steps(numbers)
    [] key = "quick"     -> quick_sort_steps(numbers)
    [] key = "heap"      -> heap_sort_steps(numbers)

\* ---------------------------------------------------------------------
\* Inputs
\* ---------------------------------------------------------------------
Values == 1 .. MaxVal

\* Lists handed to a generator directly: every length up to MaxLen.
EngineInputs == UNION {[PyRange(n) -> Values] : n \in 0 .. MaxLen}

\* Lists the five entry fields can produce.
FieldInputs == [PyRange(NumFields) -> 1 .. MaxFieldVal]

\* algorithm_generators: for every key and list, what the generator yields
\* (tabulated once over the whole domain).
algorithm_generators ==
  [call \in AlgorithmKeys \X (EngineInputs \cup FieldInputs) |->
     generator_func(call[1], call[2])] @@ <<>>

\* Decimal texts of the integers an entry field may hold.
DigitTexts == <<"1", "2", "3", "4", "5", "6", "7", "8", "9">>

\* Texts of the five entry fields that parse: a decimal text in each.
ValidTexts == [PyRange(NumFields) -> {DigitTexts[v] : v \in 1 .. MaxFieldVal}]

\* Texts of the five entry fields that do not parse: one field, or two,
\* left empty, blank or holding a word.
InvalidTexts ==
  LET base == [f \in PyRange(NumFields) |-> "1"]
      bad  == {"", " ", "x"}
  IN  {[base EXCEPT ![f] = b] : f \in PyRange(NumFields), b \in bad}
      \cup {[base EXCEPT ![0] = "x", ![NumFields - 1] = b] : b \in bad}

\* What the user may have typed into the entry fields.
FieldTexts == ValidTexts \cup InvalidTexts

\* entry.get().strip()
Strip(text) == IF text = " " THEN "" ELSE text

\* int(value) succeeds
IsIntText(text) == \E v \in DOMAIN DigitTexts : DigitTexts[v] = text

\* int(value)
IntOf(text) == CHOOSE v \in DOMAIN DigitTexts : DigitTexts[v] = text

\* _parse_numbers: None when a field is blank or not an integer.
parse_numbers(texts) ==
  IF \E f \in DOMAIN texts : Strip(texts[f]) = "" THEN None
  ELSE IF \E f \in DOMAIN texts : ~IsIntText(Strip(texts[f])) THEN None
  ELSE Some([f \in DOMAIN texts |-> IntOf(Strip(texts[f]))])

\* ---------------------------------------------------------------------
\* State of SortingVisualizer
\* ---------------------------------------------------------------------
VARIABLES
  step_generator,  \* None, or the generator: its function key, its
                   \* argument and how many steps have been pulled from it
  after_id,        \* None, or the id of the timer callback last scheduled
  timers,          \* ids of the callbacks pending in the Tk event loop
  is_running,
  is_paused,
  current_data,    \* the list mirrored on the canvas
  sorted_indices,
  bar_colors,      \* fill colour of each rectangle of bar_rects
  run,             \* history: None, or key, input and the steps applied
                   \* so far of the run that is active
  last_request,    \* history: the handler invoked last
  request_found,   \* history: what that handler found when it was invoked
  steps_found      \* history: whether the generator had yielded an even (0)
                   \* or an odd (1) number of steps when that handler was a
                   \* firing callback; 0 after the other handlers

vars == <<step_generator, after_id, timers, is_running, is_paused,
          current_data, sorted_indices, bar_colors, run, last_request,
          request_found, steps_found>>

DEFAULT_COLOR == "#4a90e2"

COMPARE_COLOR == "#f5d76e"

SWAP_COLOR == "#f85f5f"

SORTED_COLOR == "#2ecc71"

\* The object as one record.
Self ==
  [step_generator |-> step_generator, after_id |-> after_id,
   timers |-> timers, is_running |-> is_running, is_paused |-> is_paused,
   current_data |-> current_data, sorted_indices |-> sorted_indices,
   bar_colors |-> bar_colors, run |-> run]

SetSelf(s) ==
  /\ step_generator' = s.step_generator
  /\ after_id' = s.after_id
  /\ timers' = s.timers
  /\ is_running' = s.is_running
  /\ is_paused' = s.is_paused
  /\ current_data' = s.current_data
  /\ sorted_indices' = s.sorted_indices
  /\ bar_colors' = s.bar_colors
  /\ run' = s.run

\* __init__
InitSelf ==
  [step_generator |-> None, after_id |-> None, timers |-> {},
   is_running |-> FALSE, is_paused |-> FALSE,
   current_data |-> <<>>, sorted_indices |-> {},
   bar_colors |-> <<>>, run |-> None]

\* ---------------------------------------------------------------------
\* Drawing helpers and step handlers
\* ---------------------------------------------------------------------
set_bar_color(s, index, color) ==
  IF 0 <= index /\ index < PyLen(s.bar_colors)
  THEN [s EXCEPT !.bar_colors[index] = color]
  ELSE s

\* _create_bars: one rectangle per value, in the default colour.
create_bars(s, values) ==
  [s EXCEPT !.bar_colors = [index \in DOMAIN values |-> DEFAULT_COLOR]]

highlight_compare(s, i, j) ==
  set_bar_color(set_bar_color(s, i, COMPARE_COLOR), j, COMPARE_COLOR)

\* highlight_swap with the two assignments made one after the other: the
\* value at i is lost.
highlight_swap_Clobber(s, i, j) ==
  LET s1 == [s EXCEPT !.current_data =
                 [@ EXCEPT ![i] = s.current_data[j],
                           ![j] = s.current_data[j]]]
  IN  set_bar_color(set_bar_color(s1, i, SWAP_COLOR), j, SWAP_COLOR)

highlight_swap(s, i, j) ==
  LET s1 == [s EXCEPT !.current_data =
                 [@ EXCEPT ![i] = s.current_data[j],
                           ![j] = s.current_data[i]]]
  IN  set_bar_color(set_bar_color(s1, i, SWAP_COLOR), j, SWAP_COLOR)

apply_overwrite(s, index, value) ==
  set_bar_color([s EXCEPT !.current_data[index] = value], index, SWAP_COLOR)

reset_colors(s, i, j) ==
  LET s1 == IF i \notin s.sorted_indices
            THEN set_bar_color(s, i, DEFAULT_COLOR) ELSE s
  IN  IF j \notin s1.sorted_indices
      THEN set_bar_color(s1, j, DEFAULT_COLOR) ELSE s1

\* mark_sorted that records the index but leaves the bar's colour alone.
mark_sorted_NoColor(s, index) ==
  IF 0 <= index /\ index < PyLen(s.current_data)
  THEN [s EXCEPT !.sorted_indices = @ \cup {index}]
  ELSE s

\* mark_sorted with the lower bound of its range check off by one.
mark_sorted_SkipZero(s, index) ==
  IF 0 < index /\ index < PyLen(s.current_data)
  THEN set_bar_color([s EXCEPT !.sorted_indices = @ \cup {index}],
                     index, SORTED_COLOR)
  ELSE s

mark_sorted(s, index) ==
  IF 0 <= index /\ index < PyLen(s.current_data)
  THEN set_bar_color([s EXCEPT !.sorted_indices = @ \cup {index}],
                     index, SORTED_COLOR)
  ELSE s

\* for index in range(len(current_data)): mark it unless already sorted
RECURSIVE FinishMarks(_, _)
FinishMarks(s, index) ==
  IF index >= PyLen(s.current_data) THEN s
  ELSE FinishMarks(IF index \notin s.sorted_indices
                   THEN mark_sorted(s, index) ELSE s,
                   index + 1)

finish_sorting(s) ==
  FinishMarks([s EXCEPT !.is_running = FALSE, !.is_paused = FALSE,
                        !.after_id = None, !.step_generator = None,
                        !.run = None],
              0)

\* ---------------------------------------------------------------------
\* perform_next_step
\* ---------------------------------------------------------------------
\* The steps the generator g yields over its whole life.
GenTrace(g) == algorithm_generators[<<g.key, g.numbers>>]

\* next(step_generator) raises StopIteration
Exhausted(g) == g.pos >= Len(GenTrace(g))

\* next(step_generator)
NextOf(g) == GenTrace(g)[g.pos + 1].step

\* The if/elif chain on the action of the pulled step.
Dispatch(s, step) ==
  LET action       == step.action
      first_index  == step.first
      second_value == step.second
  IN  IF action = "compare" /\ second_value # None
        THEN highlight_compare(s, first_index, second_value[1])
      ELSE IF action = "swap" /\ second_value # None
        THEN highlight_swap(s, first_index, second_value[1])
      ELSE IF action = "overwrite" /\ second_value # None
        THEN apply_overwrite(s, first_index, second_value[1])
      ELSE IF action = "revert" /\ second_value # None
        THEN reset_colors(s, first_index, second_value[1])
      ELSE IF action = "mark_sorted"
        THEN mark_sorted(s, first_index)
      ELSE s

\* root.after(delay, perform_next_step): a fresh id joins the pending
\* callbacks and is kept in after_id.
Schedule(s) ==
  LET id == CHOOSE t \in 1 .. (Cardinality(s.timers) + 1) : t \notin s.timers
  IN  [s EXCEPT !.after_id = Some(id), !.timers = @ \cup {id}]

\* after_cancel that forgets the id but leaves the callback pending.
AfterCancel_ForgetOnly(s) ==
  IF s.after_id # None
  THEN [s EXCEPT !.after_id = None]
  ELSE s

\* root.after_cancel(after_id)
AfterCancel(s) ==
  IF s.after_id # None
  THEN [s EXCEPT !.timers = @ \ {s.after_id[1]}, !.after_id = None]
  ELSE s

\* Record in the history that `step` was pulled and applied.
Delivered(s, step) ==
  [s EXCEPT !.step_generator[1].pos = @ + 1,
            !.run[1].applied = Append(@, step)]

\* perform_next_step that applies the step but schedules no callback.
perform_next_step_NoSchedule(s) ==
  LET s0 == [s EXCEPT !.after_id = None]
  IN  IF ~s0.is_running \/ s0.is_paused \/ s0.step_generator = None
      THEN s0
      ELSE IF Exhausted(s0.step_generator[1])
      THEN finish_sorting(s0)
      ELSE LET step == NextOf(s0.step_generator[1])
           IN  Dispatch(Delivered(s0, step), step)

perform_next_step(s) ==
  LET s0 == [s EXCEPT !.after_id = None]
  IN  IF ~s0.is_running \/ s0.is_paused \/ s0.step_generator = None
      THEN s0
      ELSE IF Exhausted(s0.step_generator[1])
      THEN finish_sorting(s0)
      ELSE LET step == NextOf(s0.step_generator[1])
           IN  Schedule(Dispatch(Delivered(s0, step), step))

\* ---------------------------------------------------------------------
\* start_sort, pause_or_resume, reset
\* ---------------------------------------------------------------------
\* start_sort that raises the running flag before it looks the key up.
StartWith_FlagBeforeLookup(s, numbers, algorithm_key) ==
  LET s1 == create_bars([s EXCEPT !.current_data = numbers,
                                  !.sorted_indices = {},
                                  !.is_running = TRUE],
                        numbers)
  IN  IF algorithm_key \notin AlgorithmKeys
      THEN [s1 EXCEPT !.run = None]
      ELSE perform_next_step(
             [s1 EXCEPT
                !.step_generator =
                   Some([key |-> algorithm_key, numbers |-> numbers,
                         pos |-> 0]),
                !.is_paused = FALSE,
                !.run = Some([key |-> algorithm_key, numbers |-> numbers,
                              applied |-> <<>>])])

\* start_sort from `self.current_data = list(numbers)` on.
StartWith(s, numbers, algorithm_key) ==
  LET s1 == create_bars([s EXCEPT !.current_data = numbers,
                                  !.sorted_indices = {}],
                        numbers)
  IN  IF algorithm_key \notin AlgorithmKeys
      THEN [s1 EXCEPT !.run = None]
      ELSE perform_next_step(
             [s1 EXCEPT
                !.step_generator =
                   Some([key |-> algorithm_key, numbers |-> numbers,
                         pos |-> 0]),
                !.is_running = TRUE,
                !.is_paused = FALSE,
                !.run = Some([key |-> algorithm_key, numbers |-> numbers,
                              applied |-> <<>>])])

\* start_sort without the check for a run in progress.
start_sort_NoGuard(s, texts, algorithm_key) ==
  LET numbers == parse_numbers(texts)
  IN  IF numbers = None THEN s
      ELSE StartWith(s, numbers[1], algorithm_key)

\* start_sort that clears the sorted set before it validates the fields.
start_sort_ClearFirst(s, texts, algorithm_key) ==
  IF s.is_running THEN s
  ELSE LET numbers == parse_numbers(texts)
           s1 == [s EXCEPT !.sorted_indices = {}]
       IN  IF numbers = None THEN s1
           ELSE StartWith(s1, numbers[1], algorithm_key)

start_sort(s, texts, algorithm_key) ==
  IF s.is_running THEN s
  ELSE LET numbers == parse_numbers(texts)
       IN  IF numbers = None THEN s
           ELSE StartWith(s, numbers[1], algorithm_key)

\* pause_or_resume that starts the generator afresh on resume.
pause_or_resume_Restart(s) ==
  IF ~s.is_running THEN s
  ELSE IF s.is_paused
  THEN perform_next_step([s EXCEPT !.is_paused = FALSE,
                                   !.step_generator[1].pos = 0])
  ELSE AfterCancel([s EXCEPT !.is_paused = TRUE])

\* pause_or_resume that leaves the scheduled callback pending on pause.
pause_or_resume_NoCancel(s) ==
  IF ~s.is_running THEN s
  ELSE IF s.is_paused
  THEN perform_next_step([s EXCEPT !.is_paused = FALSE])
  ELSE [s EXCEPT !.is_paused = TRUE]

pause_or_resume(s) ==
  IF ~s.is_running THEN s
  ELSE IF s.is_paused
  THEN perform_next_step([s EXCEPT !.is_paused = FALSE])
  ELSE AfterCancel([s EXCEPT !.is_paused = TRUE])

\* reset that does not cancel the scheduled callback.
reset_NoCancel(s) ==
  [s EXCEPT
     !.after_id = None,
     !.is_running = FALSE, !.is_paused = FALSE, !.step_generator = None,
     !.current_data = <<>>, !.sorted_indices = {}, !.bar_colors = <<>>,
     !.run = None]

reset(s) ==
  [AfterCancel(s) EXCEPT
     !.is_running = FALSE, !.is_paused = FALSE, !.step_generator = None,
     !.current_data = <<>>, !.sorted_indices = {}, !.bar_colors = <<>>,
     !.run = None]

\* ---------------------------------------------------------------------
\* Controller states of the specification's state machine
\* ---------------------------------------------------------------------
Running == is_running /\ ~is_paused

Paused == is_running /\ is_paused

Finished == ~is_running /\ current_data # <<>>

Idle == ~is_running /\ current_data = <<>>

\* Whether the generator has yielded an even (0) or an odd (1) number of
\* steps; 0 where there is none.
StepsYielded ==
  IF step_generator = None THEN 0 ELSE step_generator[1].pos % 2

\* The name of the controller state.
ControllerState ==
  IF Running THEN "Running"
  ELSE IF Paused THEN "Paused"
  ELSE IF Finished THEN "Finished"
  ELSE "Idle"

\* ---------------------------------------------------------------------
\* Specification of the application
\* ---------------------------------------------------------------------
SelfIs(s) ==
  /\ step_generator = s.step_generator
  /\ after_id = s.after_id
  /\ timers = s.timers
  /\ is_running = s.is_running
  /\ is_paused = s.is_paused
  /\ current_data = s.current_data
  /\ sorted_indices = s.sorted_indices
  /\ bar_colors = s.bar_colors
  /\ run = s.run

Init ==
  /\ SelfIs(InitSelf)
  /\ last_request = "none"
  /\ request_found = "nothing"
  /\ steps_found = 0

\* What start_sort finds when it is invoked with these field texts and this
\* selection.
StartFinds(texts, algorithm_key) ==
  IF is_running THEN "running"
  ELSE IF parse_numbers(texts) = None THEN "invalid_input"
  ELSE IF algorithm_key \notin AlgorithmKeys THEN "unknown_algorithm"
  ELSE "valid_input"

\* The Start button with these field texts and this selection.
StartRequest(texts, algorithm_key) ==
  /\ LET s == start_sort(Self, texts, algorithm_key) IN SetSelf(s)
  /\ last_request' = "start_sort"
  /\ request_found' = StartFinds(texts, algorithm_key)
  /\ steps_found' = 0

\* The Start button while a run is active: start_sort returns before it
\* reads the entry fields, so one filling of the fields stands for all.
StartWhileRunning ==
  /\ is_running
  /\ StartRequest([f \in PyRange(NumFields) |-> DigitTexts[1]],
                  algorithm_options[1])

\* The Start button otherwise, with the texts of the five entry fields and
\* the selected radio button.
StartSort ==
  /\ ~is_running
  /\ \E texts \in FieldTexts, algorithm_key \in AlgorithmKeys :
        StartRequest(texts, algorithm_key)

PauseOrResume ==
  /\ LET s == pause_or_resume(Self) IN SetSelf(s)
  /\ last_request' = "pause_or_resume"
  /\ request_found' = ControllerState
  /\ steps_found' = 0

Reset ==
  /\ LET s == reset(Self) IN SetSelf(s)
  /\ last_request' = "reset"
  /\ request_found' = ControllerState
  /\ steps_found' = 0

\* A pending timer callback fires: Tk removes it from its queue and calls
\* perform_next_step.
Tick ==
  /\ \E t \in timers :
        LET s == perform_next_step([Self EXCEPT !.timers = @ \ {t}])
        IN  SetSelf(s)
  /\ last_request' = "tick"
  /\ request_found' = ControllerState
  /\ steps_found' = StepsYielded

Next ==
  \/ StartWhileRunning
  \/ StartSort
  \/ PauseOrResume
  \/ Reset
  \/ Tick

Spec == Init /\ [][Next]_vars

\* ---------------------------------------------------------------------
\* Specification of the application under the Tk event loop's scheduling:
\* mainloop runs a callback registered with root.after once its delay has
\* passed, unless it is cancelled first. The user's requests are under no
\* obligation.
\* ---------------------------------------------------------------------
\* A pending callback fires, as the history variables tell it. A step of
\* Next is a Tick step exactly if it is a TickFires step, and it always
\* changes <<last_request, steps_found>>, a tick that follows a tick
\* finding one step more yielded and so the other parity; TickFires is
\* enabled exactly where Tick is, where a callback is pending.
TickFires ==
  /\ timers # {}
  /\ last_request' = "tick"
  /\ steps_found' = StepsYielded

LiveSpec ==
  Init /\ [][Next]_vars /\ WF_<<last_request, steps_found>>(TickFires)

\* ---------------------------------------------------------------------
\* Specification of the application with algorithm_var open to its
\* environment: the radio buttons offer the registered keys only, but the
\* variable is an attribute that can be set to any string, and start_sort
\* has a branch for a key that algorithm_generators does not hold.
\* ---------------------------------------------------------------------
\* A value of algorithm_var that algorithm_generators.get answers with
\* None; the branch taken does not look at the key any further.
UnregisteredKeys == {"shell"}

\* The field texts tried with an unregistered key: the invalid ones, and
\* the valid ones whose fields after the first are all alike (the branch
\* does not look at the numbers).
UnregisteredTexts ==
  InvalidTexts \cup
    {texts \in ValidTexts :
       \A f \in 1 .. (NumFields - 1) : texts[f] = texts[1]}

\* The Start button, no run being active, with algorithm_var holding a key
\* that is not registered.
StartSortUnregistered ==
  /\ ~is_running
  /\ \E texts \in UnregisteredTexts, algorithm_key \in UnregisteredKeys :
        StartRequest(texts, algorithm_key)

SelectionNext ==
  \/ Next
  \/ StartSortUnregistered

SelectionSpec == Init /\ [][SelectionNext]_vars

\* ---------------------------------------------------------------------
\* Specification of the generators on lists of every length: the object
\* is driven as start_sort drives it, with a list of any length up to
\* MaxLen in place of the parsed fields, and then by timer ticks alone.
\* ---------------------------------------------------------------------
EngineInit ==
  /\ \E numbers \in EngineInputs, algorithm_key \in AlgorithmKeys :
        SelfIs(StartWith(InitSelf, numbers, algorithm_key))
  /\ last_request = "start_sort"
  /\ request_found = "valid_input"
  /\ steps_found = 0

EngineNext == Tick

EngineSpec == EngineInit /\ [][EngineNext]_vars

\* ---------------------------------------------------------------------
\* Vocabulary of the properties
\* ---------------------------------------------------------------------
\* The Python list [seq[1], seq[2], ...]
PyList(seq) == [i \in PyRange(Len(seq)) |-> seq[i + 1]]

\* The steps, in order, that the generator of run r yields over its life.
EngineSteps(r) ==
  LET trace == algorithm_generators[<<r.key, r.numbers>>]
  IN  [k \in DOMAIN trace |-> trace[k].step]

\* What a Swap or an Overwrite event says happened to the list; the other
\* kinds of event say nothing about it.
Replayed(list, step) ==
  IF step.action = "swap"
  THEN [list EXCEPT ![step.first] = list[step.second[1]],
                    ![step.second[1]] = list[step.first]]
  ELSE IF step.action = "overwrite"
  THEN [list EXCEPT ![step.first] = step.second[1]]
  ELSE list

\* `list` after the events steps[k], steps[k + 1], ... have been replayed
\* on it in order.
RECURSIVE ReplayFrom(_, _, _)
ReplayFrom(list, steps, k) ==
  IF k > Len(steps) THEN list
  ELSE ReplayFrom(Replayed(list, steps[k]), steps, k + 1)

\* `list` after the events of `steps` have been replayed on it in order.
Replay(list, steps) == ReplayFrom(list, steps, 1)

NonDecreasing(list) ==
  \A i \in DOMAIN list : \A j \in DOMAIN list : i < j => list[i] <= list[j]

Count(list, v) == Cardinality({i \in DOMAIN list : list[i] = v})

SameMultiset(a, b) ==
  /\ PyLen(a) = PyLen(b)
  /\ \A i \in DOMAIN a : Count(a, a[i]) = Count(b, a[i])

\* The generator of the active run has yielded its last step.
AllDelivered == run # None /\ Exhausted(step_generator[1])

\* ---------------------------------------------------------------------
\* Properties
\* ---------------------------------------------------------------------
\* Replaying the step sequence of any generator on the empty list gives the
\* empty list.
EmptyReplaysEmpty ==
  \A key \in AlgorithmKeys :
    Replay(<<>>, EngineSteps([key |-> key, numbers |-> <<>>])) = <<>>

\* C1: for each of the six generators and every input list, replaying all
\* Swap and Overwrite events of the generator's step sequence, in order,
\* on a copy of the input gives a non-decreasing list that is a
\* permutation of the input; for the empty list this is the empty list.
\* (Stated where the run has delivered the whole step sequence.)
C1_ReplaySorts ==
  /\ AllDelivered =>
        LET final == Replay(run[1].numbers, EngineSteps(run[1]))
        IN  NonDecreasing(final) /\ SameMultiset(final, run[1].numbers)
  /\ EmptyReplaysEmpty

\* A quick sort run on [3, 1, 2, 1] has delivered its last step and the
\* mirror shows [1, 1, 2, 3].
C1_Witness ==
  /\ AllDelivered
  /\ run[1].key = "quick"
  /\ run[1].numbers = PyList(<<3, 1, 2, 1>>)
  /\ current_data = PyList(<<1, 1, 2, 3>>)

\* C2: once _finish_sorting has run for a non-empty list, the sorted set
\* is exactly the set of all indices of the list.
C2_FinishedAllSorted ==
  Finished => sorted_indices = DOMAIN current_data

\* The tick that found the generator exhausted has finished a run.
C2_Witness ==
  /\ Finished
  /\ last_request = "tick"
  /\ step_generator = None
  /\ sorted_indices = PyRange(NumFields)

\* C3: for a non-empty input of length n, the steps a generator yields by
\* itself include a MarkSorted(i) for every position i in 0..n-1.
C3_EngineMarksAll ==
  AllDelivered =>
    \A i \in DOMAIN run[1].numbers :
      \E k \in DOMAIN run[1].applied :
        run[1].applied[k] = Step("mark_sorted", i, None)

\* A heap sort run on three values has delivered its last step, and
\* nothing but the generator's own steps has marked an index.
C3_Witness ==
  /\ AllDelivered
  /\ is_running
  /\ run[1].key = "heap"
  /\ run[1].numbers = PyList(<<2, 3, 1>>)
  /\ sorted_indices = PyRange(3)

\* C4: while a run is active, paused or not, the mirror current_data is
\* the input with the Swap and Overwrite steps delivered so far replayed
\* in order (Compare, Revert and MarkSorted steps replay to no change),
\* and it equals the generator's private list at the yield on which the
\* generator is suspended.
C4_MirrorMatches ==
  run # None =>
    LET g == step_generator[1]
        engine_data == IF g.pos = 0 THEN g.numbers
                       ELSE GenTrace(g)[g.pos].data
    IN  /\ current_data = Replay(run[1].numbers, run[1].applied)
        /\ current_data = engine_data

\* A merge sort run is paused right after an Overwrite changed the mirror.
C4_Witness ==
  /\ Paused
  /\ run[1].key = "merge"
  /\ run[1].applied[Len(run[1].applied)].action = "overwrite"
  /\ current_data # run[1].numbers

\* C5: once MarkSorted(i) has been delivered, no later step of the run
\* changes the value at position i.
C5_MarkedNeverChanges ==
  [][\A i \in sorted_indices :
       i \in DOMAIN current_data' => current_data'[i] = current_data[i]]_vars

\* The step is a Compare or a Swap that refers to position i.
Mentions(step, kinds, i) ==
  /\ step.action \in kinds
  /\ (step.first = i \/ step.second = Some(i))

\* The step is a Revert covering i and j, or the self-revert Revert(k, k)
\* of a merge placement.
Covers(step, key, i, j) ==
  /\ step.action = "revert"
  /\ \/ {i, j} \subseteq {step.first, step.second[1]}
     \/ key = "merge" /\ step.second = Some(step.first)

\* In `steps`, every Compare(i, j) is followed by a covering Revert, and
\* that Revert comes before the next step of one of `kinds` that refers
\* to i or to j.
RevertedBeforeNext(steps, key, kinds) ==
  \A p \in DOMAIN steps :
    steps[p].action = "compare" =>
      LET i == steps[p].first
          j == steps[p].second[1]
          later == (p + 1) .. Len(steps)
          reverts == {q \in later : Covers(steps[q], key, i, j)}
          refs == {r \in later : \/ Mentions(steps[r], kinds, i)
                                  \/ Mentions(steps[r], kinds, j)}
      IN  /\ reverts # {}
          /\ \A r \in refs : \E q \in reverts : q < r

\* C6, as stated: in the steps of a run, after each Compare(i, j) a
\* covering Revert occurs before i or j is next referred to by a Compare
\* or a Swap.
C6_RevertBeforeCompareOrSwap ==
  AllDelivered =>
    RevertedBeforeNext(run[1].applied, run[1].key, {"compare", "swap"})

\* C6, amended: in the steps of a run, after each Compare(i, j) a covering
\* Revert occurs before i or j is next referred to by a Compare.
C6_RevertBeforeCompare ==
  AllDelivered =>
    RevertedBeforeNext(run[1].applied, run[1].key, {"compare"})

\* A quick sort run that compared, swapped and reverted has delivered its
\* last step.
C6_Witness ==
  /\ AllDelivered
  /\ run[1].key = "quick"
  /\ run[1].numbers = PyList(<<2, 1, 3, 1>>)
  /\ \E k \in DOMAIN run[1].applied : run[1].applied[k].action = "swap"

\* C7: whatever the interleaving of pause and resume requests with ticks,
\* the steps applied during a run are, in order, the steps the generator
\* yields: at every moment a prefix of them, at the end all of them; and
\* a resume applies exactly the step that follows the ones applied before
\* the pause.
C7_SameStepSequence ==
  /\ [](run # None =>
          run[1].applied =
            SubSeq(EngineSteps(run[1]), 1, Len(run[1].applied)))
  /\ [][/\ (is_running /\ ~is_running' /\ current_data' # <<>>) =>
             run[1].applied = EngineSteps(run[1])
        /\ (is_paused /\ ~is_paused' /\ is_running') =>
             run'[1].applied =
               Append(run[1].applied,
                      EngineSteps(run[1])[Len(run[1].applied) + 1])]_vars

\* A run was paused and resumed, and the resume applied its fourth step.
C7_Witness ==
  /\ Running
  /\ last_request = "pause_or_resume"
  /\ Len(run[1].applied) = 4
  /\ run[1].key = "insertion"

\* C8: a pause request in Running cancels the pending callback and pulls
\* no step; from one Paused state to the next neither the generator, the
\* mirror nor the sorted set changes; a resume request itself pulls the
\* next step (or, the generator being exhausted, finishes the run).
C8_PausedHoldsStill ==
  [][/\ (Running /\ last_request' = "pause_or_resume") =>
          /\ is_running' /\ is_paused'
          /\ timers' = {} /\ after_id' = None
          /\ UNCHANGED <<step_generator, current_data, sorted_indices, run>>
     /\ (Paused /\ is_running' /\ is_paused') =>
          UNCHANGED <<step_generator, current_data, sorted_indices, run>>
     /\ (Paused /\ last_request' = "pause_or_resume") =>
          /\ ~is_paused'
          /\ IF Exhausted(step_generator[1])
             THEN ~is_running'
             ELSE /\ step_generator'[1].pos = step_generator[1].pos + 1
                  /\ run'[1].applied =
                       Append(run[1].applied, NextOf(step_generator[1]))
                  /\ Cardinality(timers') = 1]_vars

\* A selection sort run was paused with a callback pending and then
\* resumed; the resume pulled a step and scheduled the next tick.
C8_Witness ==
  /\ Running
  /\ last_request = "pause_or_resume"
  /\ run[1].key = "selection"
  /\ Len(run[1].applied) >= 3
  /\ after_id # None

\* C9: exactly one timer callback is outstanding while the controller is
\* Running, none while it is Idle, Paused or Finished; after_id names the
\* outstanding callback.
C9_OneCallback ==
  /\ Cardinality(timers) = (IF Running THEN 1 ELSE 0)
  /\ timers = {after_id[k] : k \in DOMAIN after_id}

\* A run is paused after some ticks: its callback has been cancelled.
C9_Witness ==
  /\ Paused
  /\ last_request = "pause_or_resume"
  /\ Len(run[1].applied) >= 5
  /\ timers = {}

\* C10: a start request while a run is active, paused or not, changes
\* nothing: flags, mirror, sorted set, generator position and pending
\* timer stay as they were.
C10_StartIgnored ==
  [][(is_running /\ last_request' = "start_sort") =>
       UNCHANGED <<step_generator, after_id, timers, is_running, is_paused,
                   current_data, sorted_indices, bar_colors, run>>]_vars

\* A start request has arrived while a run that had applied steps was
\* paused.
C10_Witness ==
  /\ Paused
  /\ last_request = "start_sort"
  /\ Len(run[1].applied) >= 2

\* C11: a start request whose fields fail validation (one blank or not an
\* integer) changes nothing: flags, mirror, sorted set, colours, generator,
\* steps applied and pending timer are as before; a start request with
\* valid fields made while no run is active, after such a rejection too,
\* starts a run on the numbers typed.
C11_InvalidStartRejected ==
  [][/\ request_found' = "invalid_input" =>
          UNCHANGED <<step_generator, after_id, timers, is_running,
                      is_paused, current_data, sorted_indices, bar_colors,
                      run>>
     /\ request_found' = "valid_input" =>
          /\ is_running' /\ ~is_paused'
          /\ step_generator' # None
          /\ run' # None
          /\ DOMAIN run'[1].numbers = PyRange(NumFields)
          /\ run'[1].applied = <<NextOf([step_generator'[1] EXCEPT !.pos = 0])>>
          /\ Cardinality(timers') = 1]_vars

\* A start request with a bad field has arrived while the bars of a
\* finished run were on the canvas, and they are still there.
C11_Witness ==
  /\ last_request = "start_sort"
  /\ request_found = "invalid_input"
  /\ Finished
  /\ sorted_indices = PyRange(NumFields)
  /\ \A i \in DOMAIN bar_colors : bar_colors[i] = SORTED_COLOR
  /\ current_data = PyList(<<1, 1, 2, 2, 2>>)

\* C12: a start request with valid fields whose selection key is not in
\* algorithm_generators starts no run: afterwards the controller is not
\* running, no generator is installed, no callback is pending, no step has
\* been applied, and the bars show the numbers typed, untouched.
C12_UnknownKeyStartsNothing ==
  [][request_found' = "unknown_algorithm" =>
       /\ ~is_running' /\ ~is_paused'
       /\ step_generator' = None
       /\ timers' = {} /\ after_id' = None
       /\ run' = None
       /\ sorted_indices' = {}
       /\ DOMAIN current_data' = PyRange(NumFields)
       /\ bar_colors' = [i \in DOMAIN current_data' |-> DEFAULT_COLOR]]_vars

\* A start request with an unregistered key has drawn the bars of
\* [2, 1, 1, 1, 1] and started nothing.
C12_Witness ==
  /\ last_request = "start_sort"
  /\ request_found = "unknown_algorithm"
  /\ current_data = PyList(<<2, 1, 1, 1, 1>>)
  /\ ~is_running
  /\ timers = {}

\* C13: a reset request, in whatever controller state it arrives, leaves
\* no callback pending and the controller Idle, with an empty mirror, an
\* empty sorted set, no bars and no generator; and every callback that
\* fires is the one the active run scheduled last, so that once a run has
\* been reset, or reset and followed by a new start, no callback of the
\* superseded run is left to apply a step: a firing callback applies the
\* next step of the run that is active, or finishes it.
C13_ResetDiscardsRun ==
  [][/\ last_request' = "reset" =>
          /\ timers' = {} /\ after_id' = None
          /\ ~is_running' /\ ~is_paused'
          /\ current_data' = <<>>
          /\ sorted_indices' = {}
          /\ bar_colors' = <<>>
          /\ step_generator' = None
          /\ run' = None
     /\ last_request' = "tick" =>
          /\ after_id # None
          /\ timers = {after_id[1]}
          /\ Running
          /\ run # None
          /\ IF Exhausted(step_generator[1])
             THEN run' = None /\ ~is_running'
             ELSE run' = [run EXCEPT ![1].applied =
                            Append(@, NextOf(step_generator[1]))]]_vars

\* A reset request has arrived while a run was Running with its callback
\* pending.
C13_Witness ==
  /\ last_request = "reset"
  /\ request_found = "Running"
  /\ Idle
  /\ timers = {}
  /\ step_generator = None

\* C14: for every generator and every non-empty input, once the run has
\* finished every bar 0..n-1 is in the colour of a sorted bar, none in the
\* compare, swap or default colour; on the finishing transition the sorted
\* set grows to all indices and the mirror is not touched.
C14_FinishedAllSortedColor ==
  /\ [](Finished =>
          bar_colors = [i \in DOMAIN current_data |-> SORTED_COLOR])
  /\ [][(is_running /\ Finished') =>
          /\ sorted_indices \subseteq sorted_indices'
          /\ sorted_indices' = DOMAIN current_data'
          /\ current_data' = current_data
          /\ \A i \in sorted_indices' \ sorted_indices :
                bar_colors'[i] = SORTED_COLOR]_vars

\* A run on a list of four has finished with four green bars.
C14_Witness ==
  /\ Finished
  /\ last_request = "tick"
  /\ current_data = PyList(<<1, 1, 2, 3>>)
  /\ bar_colors = PyList(<<SORTED_COLOR, SORTED_COLOR, SORTED_COLOR,
                            SORTED_COLOR>>)

\* C15: in every state of a run, every index in the sorted set has its
\* bar in the colour of a sorted bar: no Compare, Swap, Overwrite or
\* Revert step applied after MarkSorted(i) changes the colour of bar i.
C15_SortedColorPinned ==
  run # None =>
    \A i \in sorted_indices : bar_colors[i] = SORTED_COLOR

\* The steps of one bubble pass over positions 0..n-1 that swaps nothing:
\* Compare(j, j+1), Revert(j, j+1) for j = 0..n-2, then MarkSorted(n-1),
\* then MarkSorted(0), ..., MarkSorted(n-2).
SwaplessPass(n) ==
  [k \in 1 .. (3 * n - 2) |->
     IF k <= 2 * (n - 1)
     THEN Step(IF k % 2 = 1 THEN "compare" ELSE "revert",
               (k - 1) \div 2, Some((k - 1) \div 2 + 1))
     ELSE IF k = 2 * n - 1 THEN Step("mark_sorted", n - 1, None)
     ELSE Step("mark_sorted", k - 2 * n, None)]

\* The positions in `steps` of the MarkSorted steps that close a pass in
\* which nothing was swapped: no Swap lies between the MarkSorted before
\* it (or the beginning) and it.
SwaplessPassEnds(steps) ==
  {p \in DOMAIN steps :
     /\ steps[p].action = "mark_sorted"
     /\ LET marks == {q \in 1 .. (p - 1) : steps[q].action = "mark_sorted"}
            from  == IF marks = {} THEN 0
                     ELSE CHOOSE q \in marks : \A r \in marks : r <= q
        IN  \A q \in (from + 1) .. (p - 1) : steps[q].action # "swap"}

\* C16: the bubble generator, on a non-decreasing input of length n >= 1,
\* yields exactly one pass without a Swap: n-1 Compare steps, each with
\* its Revert, and then MarkSorted for all n positions. On every input of
\* length n >= 1, the first pass that swaps nothing is the last one: after
\* the MarkSorted(m) that closes it come MarkSorted(0), ...,
\* MarkSorted(m-1), the positions not marked before, and nothing else.
C16_BubbleEarlyExit ==
  (AllDelivered /\ run[1].key = "bubble" /\ run[1].numbers # <<>>) =>
    LET steps == run[1].applied
        n     == PyLen(run[1].numbers)
        ends  == SwaplessPassEnds(steps)
    IN  /\ NonDecreasing(run[1].numbers) => steps = SwaplessPass(n)
        /\ ends # {}
        /\ LET p == CHOOSE q \in ends : \A r \in ends : q <= r
               m == steps[p].first
           IN  /\ {steps[q].first : q \in {r \in 1 .. p :
                      steps[r].action = "mark_sorted"}} = m .. (n - 1)
               /\ SubSeq(steps, p + 1, Len(steps)) =
                    [k \in 1 .. m |-> Step("mark_sorted", k - 1, None)]

\* A bubble sort run on [1, 2, 2, 3] has delivered its last step: three
\* Compare steps, no Swap, four MarkSorted.
C16_Witness ==
  /\ AllDelivered
  /\ run[1].key = "bubble"
  /\ run[1].numbers = PyList(<<1, 2, 2, 3>>)
  /\ Len(run[1].applied) = 10
  /\ sorted_indices = PyRange(4)

\* The smallest index in i..n-1 at which `list` has its minimum over
\* i..n-1.
EarliestMinimum(list, i) ==
  CHOOSE k \in i .. (PyLen(list) - 1) :
    /\ \A m \in i .. (PyLen(list) - 1) : list[k] <= list[m]
    /\ \A m \in i .. (k - 1) : list[m] > list[k]

\* Where in `trace` the selection generator yields MarkSorted(i), the last
\* step of its outer iteration i; 0 for i = -1.
IterationEnd(trace, i) ==
  IF i < 0 THEN 0
  ELSE CHOOSE p \in DOMAIN trace : trace[p].step = Step("mark_sorted", i, None)

\* C17: in every outer iteration i of the selection generator, with k the
\* smallest index in i..n-1 at which the working list has its minimum
\* over i..n-1 when the iteration begins: if k = i the iteration yields no
\* Swap, otherwise it yields exactly one Swap, and that is Swap(i, k).
C17_SelectionEarliestMinimum ==
  (AllDelivered /\ run[1].key = "selection") =>
    LET trace == GenTrace(step_generator[1])
    IN  \A i \in DOMAIN run[1].numbers :
          LET from   == IterationEnd(trace, i - 1)
              to     == IterationEnd(trace, i)
              before == IF i = 0 THEN run[1].numbers ELSE trace[from].data
              k      == EarliestMinimum(before, i)
              swaps  == {q \in (from + 1) .. (to - 1) :
                           trace[q].step.action = "swap"}
          IN  /\ from < to
              /\ IF k = i THEN swaps = {}
                 ELSE \E q \in swaps :
                        /\ swaps = {q}
                        /\ trace[q].step = Step("swap", i, Some(k))

\* A selection sort run on [2, 1, 1, 2] has delivered its last step: of
\* the two 1s the one at index 1 was swapped to the front.
C17_Witness ==
  /\ AllDelivered
  /\ run[1].key = "selection"
  /\ run[1].numbers = PyList(<<2, 1, 1, 2>>)
  /\ \E q \in DOMAIN run[1].applied :
        run[1].applied[q] = Step("swap", 0, Some(1))

\* Provenance of the merge generator's list. Next to the generator state
\* st goes `origin`, which says for each position of st.data the index of
\* the input element now stored there. The walk below follows merge_sort
\* and merge call by call; which head a merge step places is read off
\* MergeBody (the temporary whose index it advanced).
RECURSIVE OriginsBoth(_, _, _, _, _, _, _, _, _)
OriginsBoth(p, left_part, right_part, left, mid, i, j, k, before) ==
  IF i < PyLen(left_part) /\ j < PyLen(right_part)
  THEN LET r == MergeBody(p.st, left_part, right_part, left, mid, i, j, k)
           from == IF r.i = i + 1 THEN left + i ELSE mid + 1 + j
       IN  OriginsBoth([st |-> r.st,
                        origin |-> [p.origin EXCEPT ![k] = before[from]]],
                       left_part, right_part, left, mid, r.i, r.j, r.k,
                       before)
  ELSE [p |-> p, i |-> i, j |-> j, k |-> k]

\* The tail loops of merge: position k, k + 1, ... receive the elements
\* that were at from, from + 1, ..., until_ - 1.
RECURSIVE OriginsRest(_, _, _, _, _)
OriginsRest(origin, from, until_, k, before) ==
  IF from < until_
  THEN OriginsRest([origin EXCEPT ![k] = before[from]],
                   from + 1, until_, k + 1, before)
  ELSE origin

MergeOrigins(p, left, mid, right) ==
  LET left_part  == PySlice(p.st.data, left, mid + 1)
      right_part == PySlice(p.st.data, mid + 1, right + 1)
      b  == OriginsBoth(p, left_part, right_part, left, mid, 0, 0, left,
                        p.origin)
      o1 == OriginsRest(b.p.origin, left + b.i, mid + 1, b.k, p.origin)
      k1 == b.k + (mid + 1 - (left + b.i))
      o2 == OriginsRest(o1, mid + 1 + b.j, right + 1, k1, p.origin)
  IN  [st |-> merge(p.st, left, mid, right), origin |-> o2]

RECURSIVE MergeSortOrigins(_, _, _)
MergeSortOrigins(p, left, right) ==
  IF left >= right THEN p
  ELSE LET mid == (left + right) \div 2
       IN  MergeOrigins(
             MergeSortOrigins(MergeSortOrigins(p, left, mid), mid + 1, right),
             left, mid, right)

\* The generator state and the provenance when merge_sort(0, n - 1) has
\* returned.
MergeSorted(numbers) ==
  MergeSortOrigins([st |-> NewGen(numbers),
                    origin |-> [k \in DOMAIN numbers |-> k]],
                   0, PyLen(numbers) - 1)

\* C18: the merge generator is stable. With origin[k] the input index of
\* the element that ends at position k: origin is a permutation of the
\* indices, position k holds the value of input element origin[k], and
\* two elements of equal value end in the order they had in the input.
\* On equal heads merge places the head of the left temporary.
C18_MergeStable ==
  (AllDelivered /\ run[1].key = "merge") =>
    LET numbers == run[1].numbers
        final   == MergeSorted(numbers)
        origin  == final.origin
    IN  /\ final.st.data = current_data
        /\ {origin[k] : k \in DOMAIN origin} = DOMAIN numbers
        /\ \A k \in DOMAIN origin : current_data[k] = numbers[origin[k]]
        /\ \A a \in DOMAIN origin : \A b \in DOMAIN origin :
              (a < b /\ current_data[a] = current_data[b]) =>
                origin[a] < origin[b]
        /\ \A x \in Values :
              LET r == MergeBody(NewGen(PyList(<<x, x>>)), PyList(<<x>>),
                                 PyList(<<x>>), 0, 0, 0, 0, 0)
              IN  r.i = 1 /\ r.j = 0

\* A merge sort run on [3, 2, 3, 1] has delivered its last step; the
\* mirror shows [1, 2, 3, 3].
C18_Witness ==
  /\ AllDelivered
  /\ run[1].key = "merge"
  /\ run[1].numbers = PyList(<<3, 2, 3, 1>>)
  /\ current_data = PyList(<<1, 2, 3, 3>>)

\* C19: on an input of one element the quick generator yields no Compare
\* and no Swap, and its first step is MarkSorted(0) (the closing loop then
\* yields MarkSorted(0) once more). Whatever the list is at that moment,
\* quick_sort(low, low) yields MarkSorted(low) and nothing else, and
\* leaves the list as it is.
C19_QuickSingleElement ==
  (run # None /\ run[1].key = "quick") =>
    /\ (AllDelivered /\ PyLen(run[1].numbers) = 1) =>
          run[1].applied = <<Step("mark_sorted", 0, None),
                             Step("mark_sorted", 0, None)>>
    /\ \A low \in DOMAIN current_data :
          quick_sort(NewGen(current_data), low, low) =
            [data |-> current_data,
             out  |-> <<[step |-> Step("mark_sorted", low, None),
                         data |-> current_data]>>]

\* A quick sort run on [2] has delivered its last step.
C19_Witness ==
  /\ AllDelivered
  /\ run[1].key = "quick"
  /\ run[1].numbers = PyList(<<2>>)
  /\ sorted_indices = {0}
  /\ Len(run[1].applied) = 2

\* C20: provided the controller is not left paused forever, every run
\* that has been started ends: it finishes, with its bars on the canvas,
\* unless a reset request discards it first. (Every generator yields
\* finitely many steps, and every firing callback and every resume pulls
\* one.)
C20_RunFinishes ==
  ([]<>(~Paused)) => (is_running ~> (Finished \/ last_request = "reset"))

\* A run that was paused after its last step was resumed, and the resume
\* found the generator exhausted and finished the run.
C20_Witness ==
  /\ Finished
  /\ last_request = "pause_or_resume"
  /\ request_found = "Paused"
  /\ sorted_indices = PyRange(NumFields)

\* What may lie between a Compare and its Revert: nothing, a Swap, or a
\* Swap and the Revert of that Swap's pair.
SwapAndItsRevert(between) ==
  \/ between = <<>>
  \/ /\ Len(between) \in {1, 2}
     /\ between[1].action = "swap"
     /\ Len(between) = 2 =>
          between[2] = Step("revert", between[1].first, between[1].second)

\* C21: in the steps of every generator, each Compare(i, j) is followed by
\* a Revert(i, j) of the same pair; up to the first such Revert there is
\* no other Compare, and nothing but a Swap, or a Swap and that Swap's own
\* Revert.
C21_CompareThenItsRevert ==
  AllDelivered =>
    LET steps == run[1].applied
    IN  \A p \in DOMAIN steps :
          steps[p].action = "compare" =>
            LET reverts == {q \in (p + 1) .. Len(steps) :
                              steps[q] = Step("revert", steps[p].first,
                                              steps[p].second)}
            IN  /\ reverts # {}
                /\ LET q == CHOOSE r \in reverts : \A t \in reverts : r <= t
                   IN  SwapAndItsRevert(SubSeq(steps, p + 1, q - 1))

\* A heap sort run on [1, 3, 2] has delivered its last step; its second
\* comparison was of the larger child with the other child.
C21_Witness ==
  /\ AllDelivered
  /\ run[1].key = "heap"
  /\ run[1].numbers = PyList(<<1, 3, 2>>)
  /\ run[1].applied[3] = Step("compare", 1, Some(2))
  /\ run[1].applied[4] = Step("revert", 1, Some(2))

\* The partitions the call quick_sort(low, high) makes, itself and in its
\* recursive calls, the generator being in state st when it is called.
\* Each is told by its range low..high, the slot the pivot went to, the
\* number `at` of steps yielded when MarkSorted(slot) has been yielded,
\* and the numbers `mid` and `until` of steps yielded when the call on
\* the left part and the call on the right part have returned.
RECURSIVE QuickPartitions(_, _, _)
QuickPartitions(st, low, high) ==
  IF low >= high THEN {}
  ELSE LET r == QuickScan(st, high, high, st.data[high], low, low)
           p == QuickPivot(r.st, r.i, high)
           l == quick_sort(p, low, r.i - 1)
           u == quick_sort(l, r.i + 1, high)
       IN  {[low |-> low, high |-> high, slot |-> r.i, at |-> Len(p.out),
             mid |-> Len(l.out), until |-> Len(u.out)]}
             \cup QuickPartitions(p, low, r.i - 1)
             \cup QuickPartitions(l, r.i + 1, high)

\* The positions a step refers to.
PositionsOf(step) ==
  {step.first} \cup
    (IF step.action \in {"compare", "swap", "revert"}
     THEN {step.second[1]} ELSE {})

\* C22: in the quick generator, when MarkSorted(p) is yielded for the slot
\* p the pivot of the range low..high went to, the generator's list has
\* at low..p-1 only values <= the one at p and at p+1..high only values
\* greater than it, and the value at p is the one position p has when
\* the generator is done; the recursive call that follows refers to
\* positions in low..p-1 only, the one after it to positions in
\* p+1..high only.
C22_QuickPartition ==
  (AllDelivered /\ run[1].key = "quick") =>
    LET numbers == run[1].numbers
        trace   == GenTrace(step_generator[1])
        final   == trace[Len(trace)].data
    IN  \A c \in QuickPartitions(NewGen(numbers), 0, PyLen(numbers) - 1) :
          LET data == trace[c.at].data
              p    == c.slot
          IN  /\ trace[c.at].step = Step("mark_sorted", p, None)
              /\ c.low <= p /\ p <= c.high
              /\ \A k \in c.low .. (p - 1) : data[k] <= data[p]
              /\ \A k \in (p + 1) .. c.high : data[k] > data[p]
              /\ data[p] = final[p]
              /\ \A q \in (c.at + 1) .. c.mid :
                    PositionsOf(trace[q].step) \subseteq c.low .. (p - 1)
              /\ \A q \in (c.mid + 1) .. c.until :
                    PositionsOf(trace[q].step) \subseteq (p + 1) .. c.high

\* A quick sort run on [2, 3, 1, 2] has delivered its last step; its
\* first partition put the pivot into slot 2 between [2, 1] and [3].
C22_Witness ==
  /\ AllDelivered
  /\ run[1].key = "quick"
  /\ run[1].numbers = PyList(<<2, 3, 1, 2>>)
  /\ \E k \in DOMAIN run[1].applied :
        /\ run[1].applied[k] = Step("swap", 2, Some(3))
        /\ run[1].applied[k + 2] = Step("mark_sorted", 2, None)

\* The step is well-formed for a list `numbers`: it is of one of the five
\* kinds, Compare, Swap and Revert carry two positions of the list,
\* Overwrite a position and a value that occurs in the list, MarkSorted a
\* position and None.
WellFormed(step, numbers) ==
  /\ step.action \in {"compare", "swap", "overwrite", "revert", "mark_sorted"}
  /\ step.first \in DOMAIN numbers
  /\ IF step.action = "mark_sorted" THEN step.second = None
     ELSE /\ Len(step.second) = 1
          /\ IF step.action = "overwrite"
             THEN \E k \in DOMAIN numbers : numbers[k] = step.second[1]
             ELSE step.second[1] \in DOMAIN numbers

\* On the empty list no generator yields a step.
EmptyYieldsNothing ==
  \A key \in AlgorithmKeys : algorithm_generators[<<key, <<>>>>] = <<>>

\* C23: every step a generator yields for a list of length n is
\* well-formed: a known kind, positions within 0..n-1 (which are the
\* positions of the mirror it is applied to), an Overwrite value that is
\* an element of the input; and for the empty list no generator yields
\* any step. (Stated of the step delivered last, in every state of a
\* run: each step of a run is the last one in some state.)
C23_StepsWellFormed ==
  /\ run # None =>
        /\ DOMAIN current_data = DOMAIN run[1].numbers
        /\ run[1].applied # <<>> =>
              WellFormed(run[1].applied[Len(run[1].applied)], run[1].numbers)
  /\ EmptyYieldsNothing

\* A merge sort run on [2, 1] has delivered its last step, two Overwrite
\* steps among them.
C23_Witness ==
  /\ AllDelivered
  /\ run[1].key = "merge"
  /\ run[1].numbers = PyList(<<2, 1>>)
  /\ \E k \in DOMAIN run[1].applied :
        run[1].applied[k] = Step("overwrite", 0, Some(1))
  /\ \E k \in DOMAIN run[1].applied :
        run[1].applied[k] = Step("overwrite", 1, Some(2))

\* C24: no step delivered in a run is a Swap of a position with itself.
C24_NoSelfSwap ==
  AllDelivered =>
    \A k \in DOMAIN run[1].applied :
      run[1].applied[k].action = "swap" =>
        run[1].applied[k].second # Some(run[1].applied[k].first)

====
